---- MODULE Spec2Model ----
(***************************************************************************)
(* Model of c_eventloop.c: the timer registry (timer_list, timer_expiring, *)
(* the eventTimers stash), the poll set (poll_list) and eventloop_run with *)
(* the four script-visible operations createTimer, deleteTimer, listenFd   *)
(* and requestExit, which a script may call before the loop runs or from   *)
(* inside a timer callback or a readiness callback.                       *)
(***************************************************************************)
EXTENDS Integers, Sequences, FiniteSets

(* ---- bounds of the model ---------------------------------------------- *)
\* Capacities of c_eventloop.c scaled down so that "table full" and "cap
\* reached" are reachable: MAX_TIMERS (4096, line 24), MAX_EXPIRYS (10,
\* line 28), MAX_FDS (256, line 30), MAX_WAIT (60000.0, line 27).
MAX_TIMERS == 3
MAX_EXPIRYS == 2
MAX_FDS == 2
MAX_WAIT == 2
\* last clock value, and the number of EventLoop
\* calls the script makes in one run (before the loop and from callbacks):
\* MaxCalls while no descriptor is on the poll list, MaxFdCalls otherwise
MaxTime == 2
MaxCalls == 4
MaxFdCalls == 3
\* clock units per millisecond where instants between two milliseconds are
\* told apart (TimeoutSpec)
Resolution == 2

(* ---- program constants ------------------------------------------------ *)
MIN_DELAY == 1
MIN_WAIT == 1
POLLIN == 1
POLLERR == 8

\* ids handed out in one run: every createTimer call may take one
MaxId == MaxCalls
\* delays a script passes to createTimer (0 is below MIN_DELAY)
Delays == {0, 3}
\* descriptors a script watches; 0 is the tombstone value and never passed
Fds == {1, 2}
\* interest masks a script passes to listenFd
Interests == {0, POLLIN}

VARIABLES
    timer_list,      \* pending timers, timer_list[timer_count] expires first
    timer_expiring,  \* the timer whose callback is running
    timer_next_id,
    stash,           \* ids that have a callback in <stash>.eventTimers
    poll_list,       \* poll_list[1..poll_count]
    exit_requested,
    clock,           \* now_us() / 1000.0
    pc,              \* where the program is
    now,             \* expire_timers: now
    sanity,          \* expire_timers: sanity
    t,               \* eventloop_run: t, index into timer_list, 0 = NULL
    timeout,         \* eventloop_run: timeout
    i,               \* eventloop_run: i
    n,               \* eventloop_run: n
    calls,           \* calls made by the running script or callback
    last,            \* the last thing that happened (call and result)
    fired,           \* fired[id]: how often the callback of timer id ran
    oneshots,        \* ids created with oneshot = 1
    due,             \* one-shot ids that were pending when they became due
    self_cancelled,  \* self_cancelled[id]: fired[id] when timer id was
                     \* deleted from inside its own callback, else 0
    cancelled,       \* cancelled[id]: fired[id] when timer id was deleted
                     \* while pending, else -1
    prev_fired,      \* pending target of the timer fired before in this cycle
    cycle,           \* ids of the timers fired by the expire_timers call
                     \* under way, in the order of their callbacks
    exit_called,     \* requestExit has been called
    stopped_fds,     \* fds given to listenFd(fd, 0), not watched since
    self_unwatched,  \* those of them unwatched from their own callback
    pass             \* record of the current dispatch pass

vars == <<timer_list, timer_expiring, timer_next_id, stash, poll_list,
          exit_requested, clock, pc, now, sanity, t, timeout, i, n, calls,
          last, fired, oneshots, due, self_cancelled, cancelled, prev_fired,
          cycle, exit_called, stopped_fds, self_unwatched, pass>>

timer_count == Len(timer_list)
poll_count == Len(poll_list)

\* memset(&timer, 0, sizeof(ev_timer))
ZeroTimer == [id |-> 0, target |-> 0, delay |-> 0, oneshot |-> FALSE,
              removed |-> FALSE]

NoEvent == [op |-> "none"]
NoPass == [snapshot |-> <<>>, delivered |-> <<>>, killed |-> {},
           selfun |-> FALSE]

\* states in which script code runs and may call the EventLoop functions
Callers == {"idle", "timer_cb", "fd_cb"}

CallBudget == IF poll_list = <<>> THEN MaxCalls ELSE MaxFdCalls

(* ---- timer registry --------------------------------------------------- *)

find_nearest_timer == IF timer_count <= 0 THEN 0 ELSE timer_count

Swap(list, a, b) == [list EXCEPT ![a] = list[b], ![b] = list[a]]

\* bubble_last_timer with the loop bound i > 1 for i > 0: slot 0 is never
\* compared
RECURSIVE BubbleFromOffByOne(_, _)
BubbleFromOffByOne(list, k) ==
    IF k > 2
    THEN IF list[k].target <= list[k - 1].target
         THEN list
         ELSE BubbleFromOffByOne(Swap(list, k - 1, k), k - 1)
    ELSE list

RECURSIVE BubbleFrom(_, _)
BubbleFrom(list, k) ==
    IF k > 1
    THEN IF list[k].target <= list[k - 1].target
         THEN list
         ELSE BubbleFrom(Swap(list, k - 1, k), k - 1)
    ELSE list

bubble_last_timer(list) == BubbleFrom(list, Len(list))

\* create_timer without the call of bubble_last_timer
create_timer_unsorted(list, next_id, at, delay, oneshot) ==
    LET d == IF delay < MIN_DELAY THEN MIN_DELAY ELSE delay
        tm == [id |-> next_id, target |-> at + d, delay |-> d,
               oneshot |-> oneshot, removed |-> FALSE]
    IN  IF Len(list) >= MAX_TIMERS
        THEN [err |-> TRUE, list |-> list, next_id |-> next_id, id |-> 0]
        ELSE [err |-> FALSE, list |-> Append(list, tm),
              next_id |-> next_id + 1, id |-> next_id]

\* create_timer without the check of timer_count against MAX_TIMERS
create_timer_unchecked(list, next_id, at, delay, oneshot) ==
    LET d == IF delay < MIN_DELAY THEN MIN_DELAY ELSE delay
        tm == [id |-> next_id, target |-> at + d, delay |-> d,
               oneshot |-> oneshot, removed |-> FALSE]
    IN  [err |-> FALSE, list |-> bubble_last_timer(Append(list, tm)),
         next_id |-> next_id + 1, id |-> next_id]

\* create_timer: the list and the id after createTimer(delay, oneshot) at
\* time 'at'; err when the list is full (duk_error, nothing changed)
create_timer(list, next_id, at, delay, oneshot) ==
    LET d == IF delay < MIN_DELAY THEN MIN_DELAY ELSE delay
        tm == [id |-> next_id, target |-> at + d, delay |-> d,
               oneshot |-> oneshot, removed |-> FALSE]
    IN  IF Len(list) >= MAX_TIMERS
        THEN [err |-> TRUE, list |-> list, next_id |-> next_id, id |-> 0]
        ELSE [err |-> FALSE, list |-> bubble_last_timer(Append(list, tm)),
              next_id |-> next_id + 1, id |-> next_id]

\* index of the first timer of list with this id, 0 when there is none
RECURSIVE FindTimer(_, _, _)
FindTimer(list, timer_id, k) ==
    IF k > Len(list) THEN 0
    ELSE IF list[k].id = timer_id THEN k
    ELSE FindTimer(list, timer_id, k + 1)

\* memmove of the entries above k one slot down, the last slot dropped
RemoveAt(list, k) == SubSeq(list, 1, k - 1) \o SubSeq(list, k + 1, Len(list))

\* delete_timer that reports the expiring timer found without marking it
delete_timer_unmarked(list, expiring, st, timer_id) ==
    IF expiring.id = timer_id
    THEN [list |-> list, expiring |-> expiring, stash |-> st, found |-> TRUE]
    ELSE LET k == FindTimer(list, timer_id, 1)
         IN  IF k = 0
             THEN [list |-> list, expiring |-> expiring, stash |-> st,
                   found |-> FALSE]
             ELSE [list |-> RemoveAt(list, k), expiring |-> expiring,
                   stash |-> st \ {timer_id}, found |-> TRUE]

\* delete_timer without the memmove: the last slot is dropped, whichever
\* timer was found
delete_timer_unshifted(list, expiring, st, timer_id) ==
    IF expiring.id = timer_id
    THEN [list |-> list, expiring |-> [expiring EXCEPT !.removed = TRUE],
          stash |-> st, found |-> TRUE]
    ELSE LET k == FindTimer(list, timer_id, 1)
         IN  IF k = 0
             THEN [list |-> list, expiring |-> expiring, stash |-> st,
                   found |-> FALSE]
             ELSE [list |-> SubSeq(list, 1, Len(list) - 1),
                   expiring |-> expiring,
                   stash |-> st \ {timer_id}, found |-> TRUE]

\* delete_timer: registry, holder, stash and return value of deleteTimer
delete_timer(list, expiring, st, timer_id) ==
    IF expiring.id = timer_id
    THEN [list |-> list, expiring |-> [expiring EXCEPT !.removed = TRUE],
          stash |-> st, found |-> TRUE]
    ELSE LET k == FindTimer(list, timer_id, 1)
         IN  IF k = 0
             THEN [list |-> list, expiring |-> expiring, stash |-> st,
                   found |-> FALSE]
             ELSE [list |-> RemoveAt(list, k), expiring |-> expiring,
                   stash |-> st \ {timer_id}, found |-> TRUE]

(* ---- poll set --------------------------------------------------------- *)

\* index of the first entry of list with this fd, 0 when there is none
RECURSIVE FindFd(_, _, _)
FindFd(list, fd, k) ==
    IF k > Len(list) THEN 0
    ELSE IF list[k].fd = fd THEN k
    ELSE FindFd(list, fd, k + 1)

\* listen_fd: the poll list after listenFd(fd, events); err when it is full
listen_fd(list, fd, events) ==
    LET k == FindFd(list, fd, 1)
    IN  IF k # 0
        THEN IF events = 0
             THEN [err |-> FALSE, list |-> [list EXCEPT ![k].fd = 0]]
             ELSE [err |-> FALSE, list |-> [list EXCEPT ![k].events = events]]
        ELSE IF Len(list) >= MAX_FDS
             THEN [err |-> TRUE, list |-> list]
             ELSE [err |-> FALSE,
                   list |-> Append(list, [fd |-> fd, events |-> events,
                                          revents |-> 0])]

\* compact_poll_list that moves the output index on at a tombstone as well
RECURSIVE CompactFromKeepsTombstones(_, _, _)
CompactFromKeepsTombstones(list, k, out) ==
    IF k > Len(list) THEN out
    ELSE CompactFromKeepsTombstones(list, k + 1, Append(out, list[k]))

\* compact_poll_list: input index k, output list out
RECURSIVE CompactFrom(_, _, _)
CompactFrom(list, k, out) ==
    IF k > Len(list) THEN out
    ELSE IF list[k].fd = 0 THEN CompactFrom(list, k + 1, out)
    ELSE CompactFrom(list, k + 1, Append(out, list[k]))

compact_poll_list(list) == CompactFrom(list, 1, <<>>)

\* what poll() may report for an entry: nothing, the events asked for, or an
\* error condition, which is reported whatever was asked for
ReventsOf(pfd) == {0, POLLERR} \cup (IF pfd.events # 0 THEN {pfd.events} ELSE {})

(* ---- initial state: after eventloop_register -------------------------- *)

Init ==
    /\ timer_list = <<>>
    /\ timer_expiring = ZeroTimer
    /\ timer_next_id = 1
    /\ stash = {}
    /\ poll_list = <<>>
    /\ exit_requested = FALSE
    /\ clock = 0
    /\ pc = "idle"
    /\ now = 0
    /\ sanity = 0
    /\ t = 0
    /\ timeout = 0
    /\ i = 0
    /\ n = 0
    /\ calls = 0
    /\ last = NoEvent
    /\ fired = [id \in 1..MaxId |-> 0]
    /\ oneshots = {}
    /\ due = {}
    /\ self_cancelled = [id \in 1..MaxId |-> 0]
    /\ cancelled = [id \in 1..MaxId |-> -1]
    /\ prev_fired = -1
    /\ cycle = <<>>
    /\ exit_called = FALSE
    /\ stopped_fds = {}
    /\ self_unwatched = {}
    /\ pass = NoPass

loop_locals == <<now, sanity, t, timeout, i, n>>
history == <<fired, oneshots, due, self_cancelled, cancelled, prev_fired,
             exit_called, stopped_fds, self_unwatched, pass>>

\* ids of the timers of a list
IdsOf(list) == {list[k].id : k \in 1..Len(list)}

\* the one-shot timers of list that are due at time 'at'
DueAt(list, at) ==
    {list[k].id : k \in {j \in 1..Len(list) :
                            list[j].oneshot /\ list[j].target <= at}}

(* ---- operations a script calls ---------------------------------------- *)

CreateTimer(delay, oneshot) ==
    /\ pc \in Callers
    /\ calls < CallBudget
    /\ timer_next_id <= MaxId
    /\ LET r == create_timer(timer_list, timer_next_id, clock, delay, oneshot)
       IN  /\ timer_list' = r.list
           /\ timer_next_id' = r.next_id
           /\ stash' = IF r.err THEN stash ELSE stash \cup {r.id}
           /\ last' = [op |-> "createTimer", id |-> r.id, err |-> r.err]
           /\ oneshots' = IF oneshot /\ ~r.err THEN oneshots \cup {r.id}
                          ELSE oneshots
    /\ calls' = calls + 1
    /\ UNCHANGED <<timer_expiring, poll_list, exit_requested, clock, pc,
                   loop_locals, fired, due, self_cancelled, prev_fired,
                   exit_called, stopped_fds, self_unwatched, pass,
                   cancelled,
                   cycle>>

DeleteTimer(timer_id) ==
    /\ pc \in Callers
    /\ calls < CallBudget
    /\ LET r == delete_timer(timer_list, timer_expiring, stash, timer_id)
       IN  /\ timer_list' = r.list
           /\ timer_expiring' = r.expiring
           /\ stash' = r.stash
           /\ last' = [op |-> "deleteTimer", id |-> timer_id,
                       found |-> r.found,
                       known |-> \/ timer_id \in IdsOf(timer_list)
                                 \/ (pc = "timer_cb"
                                     /\ timer_expiring.id = timer_id),
                       changed |-> \/ r.list # timer_list
                                   \/ r.expiring # timer_expiring
                                   \/ r.stash # stash]
           /\ self_cancelled' =
                 IF pc = "timer_cb" /\ timer_expiring.id = timer_id
                    /\ self_cancelled[timer_id] = 0
                 THEN [self_cancelled EXCEPT ![timer_id] = fired[timer_id]]
                 ELSE self_cancelled
           /\ cancelled' =
                 IF timer_id \in IdsOf(timer_list)
                 THEN [cancelled EXCEPT ![timer_id] = fired[timer_id]]
                 ELSE cancelled
    /\ calls' = calls + 1
    /\ UNCHANGED <<timer_next_id, poll_list, exit_requested, clock, pc,
                   loop_locals, fired, oneshots, due, prev_fired,
                   exit_called, stopped_fds, self_unwatched, pass,
                   cycle>>

ListenFd(fd, events) ==
    /\ pc \in Callers
    /\ calls < MaxFdCalls
    /\ LET r == listen_fd(poll_list, fd, events)
           k == FindFd(poll_list, fd, 1)
           own == pc = "fd_cb" /\ k = i + 1
           stop == events = 0 /\ k # 0
       IN  /\ poll_list' = r.list
           /\ last' = [op |-> "listenFd", fd |-> fd, events |-> events,
                       err |-> r.err, stopped |-> fd \in stopped_fds]
           /\ stopped_fds' =
                 IF events = 0 THEN stopped_fds \cup {fd}
                 ELSE IF ~r.err THEN stopped_fds \ {fd}
                 ELSE stopped_fds
           /\ self_unwatched' =
                 IF stop /\ own THEN self_unwatched \cup {fd}
                 ELSE IF events # 0 /\ ~r.err THEN self_unwatched \ {fd}
                 ELSE self_unwatched
           /\ pass' =
                 IF pc = "fd_cb" /\ stop
                 THEN IF own THEN [pass EXCEPT !.selfun = TRUE]
                      ELSE IF k > i + 1
                           THEN [pass EXCEPT !.killed = @ \cup {k}]
                           ELSE pass
                 ELSE pass
    /\ calls' = calls + 1
    /\ UNCHANGED <<timer_list, timer_expiring, timer_next_id, stash,
                   exit_requested, clock, pc, loop_locals, fired, oneshots,
                   due, self_cancelled, prev_fired, exit_called,
                   cancelled,
                   cycle>>

RequestExit ==
    /\ pc \in Callers
    /\ calls < CallBudget
    /\ exit_requested' = TRUE
    /\ exit_called' = TRUE
    /\ last' = [op |-> "requestExit"]
    /\ calls' = calls + 1
    /\ UNCHANGED <<timer_list, timer_expiring, timer_next_id, stash,
                   poll_list, clock, pc, loop_locals, fired, oneshots, due,
                   self_cancelled, prev_fired, stopped_fds, self_unwatched,
                   pass,
                   cancelled,
                   cycle>>

\* Time passes while a timer callback runs, so that the clock runs ahead of
\* the 'now' expire_timers has read.  (Time passed in a readiness callback
\* is a later return of poll().)
Tick ==
    /\ pc = "timer_cb"
    /\ clock < MaxTime
    /\ clock' = clock + 1
    /\ due' = due \cup DueAt(timer_list, clock')
    /\ UNCHANGED <<timer_list, timer_expiring, timer_next_id, stash,
                   poll_list, exit_requested, pc, loop_locals, calls, last,
                   fired, oneshots, self_cancelled, prev_fired, exit_called,
                   stopped_fds, self_unwatched, pass,
                   cancelled,
                   cycle>>

(* ---- expire_timers ---------------------------------------------------- *)

\* expire_timers is entered: it reads the clock once for the whole round
ExpireBegin ==
    /\ now' = clock
    /\ sanity' = MAX_EXPIRYS
    /\ prev_fired' = -1
    /\ cycle' = <<>>
    /\ pc' = "expire"

\* eventloop_run is entered and calls expire_timers
Run ==
    /\ pc = "idle"
    /\ ExpireBegin
    /\ last' = [op |-> "run"]
    /\ UNCHANGED <<timer_list, timer_expiring, timer_next_id, stash,
                   poll_list, exit_requested, clock, t, timeout, i, n, calls,
                   fired, oneshots, due, self_cancelled, exit_called,
                   stopped_fds, self_unwatched, pass,
                   cancelled>>

\* ExpireGoesOn without the exit_requested check
ExpireGoesOnNoExitCheck(list, sn, ex, nw) ==
    /\ sn > 0
    /\ Len(list) > 0
    /\ list[Len(list)].target <= nw

\* ExpireGoesOn without the sanity limit
ExpireGoesOnNoLimit(list, sn, ex, nw) ==
    /\ ~ex
    /\ Len(list) > 0
    /\ list[Len(list)].target <= nw

\* the while loop goes on: sanity left, no exit, a timer that is due
ExpireGoesOn(list, sn, ex, nw) ==
    /\ sn > 0
    /\ ~ex
    /\ Len(list) > 0
    /\ list[Len(list)].target <= nw

\* MoveToExpiring without the oneshot branch
MoveToExpiringNoOneshot(tm, nw) == [tm EXCEPT !.target = nw + tm.delay]

\* the timer as it sits in timer_expiring while its callback runs
MoveToExpiring(tm, nw) ==
    IF tm.oneshot THEN [tm EXCEPT !.removed = TRUE]
    ELSE [tm EXCEPT !.target = nw + tm.delay]

\* ExpireCall without timer_count--: the timer stays on timer_list while
\* its callback runs
ExpireCallNotTaken ==
    /\ pc = "expire"
    /\ ExpireGoesOn(timer_list, sanity, exit_requested, now)
    /\ LET tm == timer_list[timer_count]
       IN  /\ timer_expiring' = MoveToExpiring(tm, now)
           /\ timer_list' = timer_list
           /\ fired' = [fired EXCEPT ![tm.id] = @ + 1]
           /\ last' = [op |-> "timer_cb", id |-> tm.id, target |-> tm.target,
                       prev |-> prev_fired]
           /\ prev_fired' = tm.target
           /\ cycle' = Append(cycle, tm.id)
    /\ sanity' = sanity - 1
    /\ pc' = "timer_cb"
    /\ UNCHANGED <<timer_next_id, stash, poll_list, exit_requested, clock,
                   now, t, timeout, i, n, calls, oneshots, due,
                   self_cancelled, exit_called, stopped_fds, self_unwatched,
                   pass,
                   cancelled>>

\* one round of the while loop up to the call of the timer's callback
ExpireCall ==
    /\ pc = "expire"
    /\ ExpireGoesOn(timer_list, sanity, exit_requested, now)
    /\ LET tm == timer_list[timer_count]
       IN  /\ timer_expiring' = MoveToExpiring(tm, now)
           /\ timer_list' = SubSeq(timer_list, 1, timer_count - 1)
           /\ fired' = [fired EXCEPT ![tm.id] = @ + 1]
           /\ last' = [op |-> "timer_cb", id |-> tm.id, target |-> tm.target,
                       prev |-> prev_fired]
           /\ prev_fired' = tm.target
           /\ cycle' = Append(cycle, tm.id)
    /\ sanity' = sanity - 1
    /\ pc' = "timer_cb"
    /\ UNCHANGED <<timer_next_id, stash, poll_list, exit_requested, clock,
                   now, t, timeout, i, n, calls, oneshots, due,
                   self_cancelled, exit_called, stopped_fds, self_unwatched,
                   pass,
                   cancelled>>

\* what follows the callback: the stash entry deleted, or the timer queued
\* back; abort is the duk_error raised when the list is full
requeue(list, expiring, st) ==
    IF expiring.removed
    THEN [abort |-> FALSE, list |-> list, stash |-> st \ {expiring.id}]
    ELSE IF Len(list) >= MAX_TIMERS
         THEN [abort |-> TRUE, list |-> list, stash |-> st]
         ELSE [abort |-> FALSE,
               list |-> bubble_last_timer(Append(list, expiring)),
               stash |-> st]

\* the callback returns (ok) or throws (~ok); duk_pcall catches the error
TimerCbReturn(ok) ==
    /\ pc = "timer_cb"
    /\ LET r == requeue(timer_list, timer_expiring, stash)
       IN  /\ timer_list' = r.list
           /\ stash' = r.stash
           /\ pc' = IF r.abort THEN "aborted" ELSE "expire"
           /\ last' = [op |-> "timer_done", id |-> timer_expiring.id,
                       ok |-> ok, removed |-> timer_expiring.removed,
                       target |-> timer_expiring.target]
    /\ UNCHANGED <<timer_expiring, timer_next_id, poll_list, exit_requested,
                   clock, loop_locals, calls, history,
                   cycle>>

(* ---- eventloop_run ---------------------------------------------------- *)

\* WaitFor that rounds the clamped difference up to whole milliseconds
WaitForRoundedUp(target, at, unit) ==
    LET diff == target - at
        clamped == IF diff < MIN_WAIT * unit THEN MIN_WAIT * unit
                   ELSE IF diff > MAX_WAIT * unit THEN MAX_WAIT * unit
                   ELSE diff
    IN  (clamped + unit - 1) \div unit

\* the poll timeout for the nearest timer at time 'at', both given in clock
\* units of which 'unit' make a millisecond: the difference is clamped to
\* MIN_WAIT..MAX_WAIT and (int) cuts it to whole milliseconds
WaitFor(target, at, unit) ==
    LET diff == target - at
        clamped == IF diff < MIN_WAIT * unit THEN MIN_WAIT * unit
                   ELSE IF diff > MAX_WAIT * unit THEN MAX_WAIT * unit
                   ELSE diff
    IN  clamped \div unit

\* after expire_timers: exit check, compaction and the poll timeout, with
\* 'unit' clock units to the millisecond
PrepareWaitIn(unit) ==
    IF exit_requested
    THEN /\ pc' = "stopped"
         /\ last' = [op |-> "stop", why |-> "exit"]
         /\ UNCHANGED <<poll_list, t, timeout>>
    ELSE /\ poll_list' = compact_poll_list(poll_list)
         /\ t' = find_nearest_timer
         /\ IF find_nearest_timer # 0
            THEN /\ timeout' = WaitFor(timer_list[find_nearest_timer].target,
                                       clock, unit)
                 /\ pc' = "poll"
                 /\ last' = [op |-> "wait", timeout |-> timeout']
            ELSE IF Len(compact_poll_list(poll_list)) = 0
                 THEN /\ pc' = "stopped"
                      /\ last' = [op |-> "stop", why |-> "idle"]
                      /\ UNCHANGED timeout
                 ELSE /\ timeout' = MAX_WAIT
                      /\ pc' = "poll"
                      /\ last' = [op |-> "wait", timeout |-> timeout']

\* the clock of the model counts whole milliseconds
PrepareWait == PrepareWaitIn(1)

\* the while loop of expire_timers ends and timer_expiring is zeroed; back
\* in eventloop_run the loop stops or gets ready to call poll()
ExpireEndIn(unit) ==
    /\ pc = "expire"
    /\ ~ExpireGoesOn(timer_list, sanity, exit_requested, now)
    /\ timer_expiring' = ZeroTimer
    /\ sanity' = 0
    /\ cycle' = <<>>
    /\ PrepareWaitIn(unit)
    /\ UNCHANGED <<timer_list, timer_next_id, stash, exit_requested, clock,
                   now, i, n, calls, history>>

ExpireEnd == ExpireEndIn(1)

\* the revents poll() may leave in the entries
ReadyLists(list) ==
    {l \in [1..Len(list) -> [fd : Fds, events : Interests,
                             revents : {0, POLLIN, POLLERR}]] :
        \A k \in 1..Len(list) :
            /\ l[k].fd = list[k].fd
            /\ l[k].events = list[k].events
            /\ l[k].revents \in ReventsOf(list[k])}

Min(a, b) == IF a < b THEN a ELSE b

\* poll() returns: rc < 0 (revents untouched), rc = 0 after the timeout
\* (revents cleared), or rc > 0 with revents set in rc entries
Poll(rc) ==
    /\ pc = "poll"
    /\ \/ /\ rc = -1
          /\ poll_list' = poll_list
          /\ clock' \in clock..Min(clock + timeout, MaxTime)
       \/ /\ rc = 0
          /\ poll_list' = [k \in 1..poll_count |->
                              [poll_list[k] EXCEPT !.revents = 0]]
          /\ clock' = Min(clock + timeout, MaxTime)
       \/ /\ rc > 0
          /\ poll_list' \in ReadyLists(poll_list)
          /\ Cardinality({k \in 1..poll_count :
                             poll_list'[k].revents # 0}) = rc
          /\ clock' \in clock..Min(clock + timeout, MaxTime)
    /\ n' = IF rc = 0 THEN 0 ELSE poll_count
    /\ i' = 0
    /\ pc' = "dispatch"
    /\ pass' = [snapshot |-> poll_list', delivered |-> <<>>, killed |-> {},
                selfun |-> FALSE]
    /\ due' = due \cup DueAt(timer_list, clock')
    /\ last' = [op |-> "polled", rc |-> rc, timeout |-> timeout]
    /\ UNCHANGED <<timer_list, timer_expiring, timer_next_id, stash,
                   exit_requested, now, sanity, t, timeout, calls, fired,
                   oneshots, self_cancelled, prev_fired, exit_called,
                   stopped_fds, self_unwatched,
                   cancelled,
                   cycle>>

\* an entry of the dispatch loop that gets no callback
DispatchSkip ==
    /\ pc = "dispatch"
    /\ i < n
    /\ \/ poll_list[i + 1].fd = 0
       \/ poll_list[i + 1].revents = 0
    /\ i' = i + 1
    /\ last' = [op |-> "skip", pos |-> i + 1]
    /\ UNCHANGED <<timer_list, timer_expiring, timer_next_id, stash,
                   poll_list, exit_requested, clock, pc, now, sanity, t,
                   timeout, n, calls, history,
                   cycle>>

\* an entry whose readiness callback is called
DispatchCall ==
    /\ pc = "dispatch"
    /\ i < n
    /\ poll_list[i + 1].fd # 0
    /\ poll_list[i + 1].revents # 0
    /\ pc' = "fd_cb"
    /\ last' = [op |-> "fd_cb", pos |-> i + 1, fd |-> poll_list[i + 1].fd,
                revents |-> poll_list[i + 1].revents]
    /\ pass' = [pass EXCEPT !.delivered =
                   Append(@, [pos |-> i + 1, fd |-> poll_list[i + 1].fd,
                              revents |-> poll_list[i + 1].revents])]
    /\ UNCHANGED <<timer_list, timer_expiring, timer_next_id, stash,
                   poll_list, exit_requested, clock, loop_locals, calls,
                   fired, oneshots, due, self_cancelled, prev_fired,
                   exit_called, stopped_fds, self_unwatched,
                   cancelled,
                   cycle>>

\* FdCbReturn without pfd->revents = 0
FdCbReturnKeepsRevents(ok, faults) ==
    /\ pc = "fd_cb"
    /\ faults => (~ok /\ t = 0)
    /\ IF faults
       THEN /\ pc' = "faulted"
            /\ UNCHANGED <<poll_list, i>>
       ELSE /\ poll_list' = poll_list
            /\ i' = i + 1
            /\ pc' = "dispatch"
    /\ last' = [op |-> "fd_done", pos |-> i + 1, ok |-> ok]
    /\ UNCHANGED <<timer_list, timer_expiring, timer_next_id, stash,
                   exit_requested, clock, now, sanity, t, timeout, n, calls,
                   history,
                   cycle>>

\* The readiness callback returns (ok) or throws (~ok).  The error report
\* reads t->id: with t == NULL that is undefined, and the program either
\* faults or goes on.
FdCbReturn(ok, faults) ==
    /\ pc = "fd_cb"
    /\ faults => (~ok /\ t = 0)
    /\ IF faults
       THEN /\ pc' = "faulted"
            /\ UNCHANGED <<poll_list, i>>
       ELSE /\ poll_list' = [poll_list EXCEPT ![i + 1].revents = 0]
            /\ i' = i + 1
            /\ pc' = "dispatch"
    /\ last' = [op |-> "fd_done", pos |-> i + 1, ok |-> ok]
    /\ UNCHANGED <<timer_list, timer_expiring, timer_next_id, stash,
                   exit_requested, clock, now, sanity, t, timeout, n, calls,
                   history,
                   cycle>>

\* the dispatch loop is through; the next round of for (;;) calls
\* expire_timers
DispatchEnd ==
    /\ pc = "dispatch"
    /\ i >= n
    /\ ExpireBegin
    /\ last' = [op |-> "dispatched"]
    /\ UNCHANGED <<timer_list, timer_expiring, timer_next_id, stash,
                   poll_list, exit_requested, clock, t, timeout, i, n, calls,
                   fired, oneshots, due, self_cancelled, exit_called,
                   stopped_fds, self_unwatched, pass,
                   cancelled>>

Next ==
    \/ \E d \in Delays, o \in BOOLEAN : CreateTimer(d, o)
    \/ \E id \in 0..timer_next_id : DeleteTimer(id)
    \/ \E fd \in Fds, ev \in Interests : ListenFd(fd, ev)
    \/ RequestExit
    \/ Tick
    \/ Run
    \/ ExpireCall
    \/ \E ok \in BOOLEAN : TimerCbReturn(ok)
    \/ ExpireEnd
    \/ \E rc \in -1..MAX_FDS : Poll(rc)
    \/ DispatchSkip
    \/ DispatchCall
    \/ \E ok \in BOOLEAN, faults \in BOOLEAN : FdCbReturn(ok, faults)
    \/ DispatchEnd

Spec == Init /\ [][Next]_vars

\* the program keeps running: scripts and callbacks return, poll() returns
FairSpec == Spec /\ WF_vars(Next)

(* ---- the timeout computation with instants between milliseconds ------- *)

\* targets and clock readings, in clock units, for TimeoutSpec
FineTargets == 0..((MaxTime + MAX_WAIT + 1) * Resolution)
FineClocks == 0..(MaxTime * Resolution)

\* a repeating timer of 1 ms that is pending at the end of expire_timers
FineTimer(id, target) ==
    [id |-> id, target |-> target, delay |-> MIN_DELAY * Resolution,
     oneshot |-> FALSE, removed |-> FALSE]

\* timer lists, sorted, of up to two timers
FineLists ==
    {<<>>}
    \cup {<<FineTimer(1, tg)>> : tg \in FineTargets}
    \cup {<<FineTimer(1, far), FineTimer(2, tg)>> :
             far \in FineTargets, tg \in FineTargets}

\* eventloop_run at the return of an expire_timers call that has used up
\* its rounds, so that the nearest timer may be overdue; no exit requested
TimeoutInit ==
    /\ timer_list \in {l \in FineLists :
                          Len(l) = 2 => l[1].target >= l[2].target}
    /\ timer_expiring = ZeroTimer
    /\ timer_next_id = Len(timer_list) + 1
    /\ stash = IdsOf(timer_list)
    /\ poll_list \in {<<>>, <<[fd |-> 1, events |-> POLLIN, revents |-> 0]>>}
    /\ exit_requested = FALSE
    /\ clock \in FineClocks
    /\ pc = "expire"
    /\ now = clock
    /\ sanity = 0
    /\ t = 0
    /\ timeout = 0
    /\ i = 0
    /\ n = 0
    /\ calls = 0
    /\ last = NoEvent
    /\ fired = [id \in 1..MaxId |-> 0]
    /\ oneshots = {}
    /\ due = {}
    /\ self_cancelled = [id \in 1..MaxId |-> 0]
    /\ cancelled = [id \in 1..MaxId |-> -1]
    /\ prev_fired = -1
    /\ cycle = <<>>
    /\ exit_called = FALSE
    /\ stopped_fds = {}
    /\ self_unwatched = {}
    /\ pass = NoPass

TimeoutNext == ExpireEndIn(Resolution)

TimeoutSpec == TimeoutInit /\ [][TimeoutNext]_vars

(* ======================================================================= *)
(* Properties                                                              *)
(* ======================================================================= *)

Executing(id) == pc = "timer_cb" /\ timer_expiring.id = id

\* C1: after every createTimer, deleteTimer and expiry step, also those made
\* from inside callbacks, the pending timers are ordered by target (the
\* later a slot, the earlier its target), and the nearest timer, the last
\* occupied slot, has the minimum target of all pending timers.
C1_TimersSorted ==
    /\ \A a, b \in 1..timer_count :
          a < b => timer_list[a].target >= timer_list[b].target
    /\ find_nearest_timer # 0 =>
          \A k \in 1..timer_count :
             timer_list[find_nearest_timer].target <= timer_list[k].target

\* a timer created from inside a timer callback was bubbled below a timer
\* with an earlier target
C1_Witness ==
    /\ pc = "timer_cb"
    /\ last.op = "createTimer"
    /\ ~last.err
    /\ timer_count >= 2
    /\ timer_list[timer_count].id # last.id
    /\ timer_list[timer_count].target < timer_list[1].target

\* C2 as stated: a one-shot timer that was pending when it became due has
\* had its callback run exactly once when the run is over, never more than
\* once before, and once the callback has returned it is neither pending nor
\* in the stash.
C2_Original ==
    /\ \A id \in oneshots : fired[id] <= 1
    /\ pc = "stopped" => \A id \in due : fired[id] = 1
    /\ \A id \in oneshots :
          (fired[id] = 1 /\ ~Executing(id)) =>
             (id \notin IdsOf(timer_list) /\ id \notin stash)

\* C2 amended: a one-shot timer has its callback run at most once in the
\* whole run (not at all when it is deleted, or the loop stops, before it is
\* taken for expiry), and once that callback has returned, normally or with
\* a failure, it is neither pending nor in the stash.
C2_OneShotAtMostOnce ==
    /\ \A id \in oneshots : fired[id] <= 1
    /\ \A id \in oneshots :
          (fired[id] = 1 /\ ~Executing(id)) =>
             (id \notin IdsOf(timer_list) /\ id \notin stash)

\* the callback of a one-shot timer has thrown and the loop has gone on to
\* the next timer
C2_Witness ==
    /\ last.op = "timer_done"
    /\ last.id \in oneshots
    /\ ~last.ok
    /\ fired[last.id] = 1
    /\ timer_count >= 1

\* C3: when the callback of a repeating timer deletes its own id, the call
\* reports found, the timer is marked removed, it is not queued back and its
\* stash entry is gone once the callback has returned, and its callback is
\* not run again.
C3_SelfCancelStops ==
    /\ (last.op = "deleteTimer" /\ Executing(last.id)) => last.found
    /\ \A id \in 1..MaxId :
          (self_cancelled[id] # 0 /\ id \notin oneshots) =>
             /\ fired[id] = self_cancelled[id]
             /\ Executing(id) => timer_expiring.removed
             /\ ~Executing(id) =>
                   (id \notin IdsOf(timer_list) /\ id \notin stash)

\* a repeating timer deleted itself, and later another timer's callback runs
C3_Witness ==
    /\ last.op = "timer_cb"
    /\ \E id \in 1..MaxId :
          /\ self_cancelled[id] # 0
          /\ id \notin oneshots
          /\ id # last.id

\* C4 as stated: deleteTimer with an id (0 included) that is neither pending
\* nor the id of the timer whose callback is running reports not found and
\* changes neither the pending timers, nor the holder, nor the stash.
C4_Original ==
    (last.op = "deleteTimer" /\ ~last.known) =>
       (~last.found /\ ~last.changed)

\* C5 as stated: after listenFd(fd, 0), whether fd was watched or not, the
\* compacted poll list has no entry for fd, fd is not given to poll() and
\* gets no readiness callback until it is watched again; a later
\* listenFd(fd, m) with m # 0 appends a fresh entry [fd, m, 0].
C5_Original ==
    /\ pc = "poll" =>
          \A k \in 1..poll_count : poll_list[k].fd \notin stopped_fds
    /\ last.op = "fd_cb" => last.fd \notin stopped_fds
    /\ (last.op = "listenFd" /\ last.events # 0 /\ last.stopped
        /\ ~last.err) =>
          poll_list[poll_count] =
             [fd |-> last.fd, events |-> last.events, revents |-> 0]

\* positions of pass.snapshot that had a pending mask and were not
\* tombstoned by another entry's callback before the pass reached them
Owed == {p \in 1..Len(pass.snapshot) :
            /\ pass.snapshot[p].revents # 0
            /\ p \notin pass.killed}

DeliveredAt(p) == {k \in 1..Len(pass.delivered) : pass.delivered[k].pos = p}

\* C6 as stated: a descriptor unwatched from its own readiness callback gets
\* no further readiness callback until it is watched again, and in a pass in
\* which that happened every other live entry with a pending mask has got
\* exactly one callback, with its own descriptor and pending mask, when the
\* pass is over.
C6_Original ==
    /\ last.op = "fd_cb" => last.fd \notin self_unwatched
    /\ \A p \in 1..Len(pass.snapshot) : Cardinality(DeliveredAt(p)) <= 1
    /\ (pass.selfun /\ pc \notin {"dispatch", "fd_cb"}) =>
          \A p \in Owed :
             \E k \in DeliveredAt(p) :
                /\ pass.delivered[k].fd = pass.snapshot[p].fd
                /\ pass.delivered[k].revents = pass.snapshot[p].revents

\* the instant a one-shot timer was created at
CreatedAt(tm) == tm.target - tm.delay

\* C7: when a timer callback is invoked, the target the timer had while
\* pending is <= the target of every timer still pending; the targets of the
\* timers fired in one expiry cycle do not decrease; and no one-shot timer
\* fires while a one-shot timer created at the same instant with a smaller
\* delay is still pending.
C7_FiringOrder ==
    last.op = "timer_cb" =>
       /\ \A k \in 1..timer_count : last.target <= timer_list[k].target
       /\ last.prev <= last.target
       /\ timer_expiring.oneshot =>
             \A k \in 1..timer_count :
                (/\ timer_list[k].oneshot
                 /\ CreatedAt(timer_list[k]) = CreatedAt(timer_expiring))
                => timer_list[k].delay >= timer_expiring.delay

\* a one-shot timer fires before a one-shot timer that was created earlier
\* at the same instant with a longer delay
C7_Witness ==
    /\ last.op = "timer_cb"
    /\ timer_expiring.oneshot
    /\ \E k \in 1..timer_count :
          /\ timer_list[k].oneshot
          /\ CreatedAt(timer_list[k]) = CreatedAt(timer_expiring)
          /\ timer_list[k].delay > timer_expiring.delay
          /\ timer_list[k].id < timer_expiring.id

LoopOver == pc \in {"stopped", "aborted", "faulted"}

\* C8: once requestExit has been called the exit flag stays set, no timer
\* callback is invoked and poll() is not entered any more, and the loop
\* comes to its end.
C8_ExitHalts ==
    /\ [](exit_called => exit_requested)
    /\ [](last.op = "timer_cb" => ~exit_called)
    /\ [](pc = "poll" => ~exit_called)
    /\ [](pc = "stopped" /\ exit_called => last.why = "exit")
    /\ (exit_called ~> LoopOver)

\* exit was requested from a timer callback and the loop has stopped with a
\* timer that was due in that expiry cycle still pending
C8_Witness ==
    /\ pc = "stopped"
    /\ exit_called
    /\ \E id \in 1..MaxId : fired[id] > 0
    /\ timer_count >= 1
    /\ timer_list[timer_count].target <= now

\* C9 as stated: a callback that throws does not stop or fault the loop, and
\* the entry is handled as after a normal return: the pending mask cleared,
\* the timer discarded or queued back.
C9_Original ==
    /\ pc # "faulted"
    /\ (last.op = "fd_done" /\ ~last.ok) =>
          (pc = "dispatch" /\ poll_list[last.pos].revents = 0)
    /\ (last.op = "timer_done" /\ ~last.ok) =>
          /\ pc = "expire"
          /\ last.removed =>
                (last.id \notin IdsOf(timer_list) /\ last.id \notin stash)
          /\ ~last.removed => last.id \in IdsOf(timer_list)

\* C10 as stated: after the callback of a repeating timer that was not
\* deleted meanwhile, the timer is pending again at target = now + delay,
\* whatever the callback did; this never aborts the loop, which stops only
\* on an exit request or with nothing left to wait for.
C10_Original ==
    /\ (last.op = "timer_done" /\ ~last.removed) =>
          \E k \in 1..timer_count :
             /\ timer_list[k].id = last.id
             /\ timer_list[k].target = now + timer_list[k].delay
    /\ pc # "aborted"
    /\ pc = "stopped" =>
          (exit_requested \/ (timer_count = 0 /\ poll_count = 0))

\* a step that is a call of createTimer
IsCreateTimer == calls' = calls + 1 /\ last'.op = "createTimer"

\* the timers of a list as a set
TimersOf(list) == {list[k] : k \in 1..Len(list)}

\* C11: the timer list never holds more than MAX_TIMERS timers; createTimer
\* called with a full list raises the error and leaves the list, the next id
\* and the stash as they were; called with room left it succeeds, and the
\* list is then the old timers plus one new timer with the next id, whose
\* callback is in the stash.
C11_Capacity ==
    /\ [](timer_count <= MAX_TIMERS)
    /\ [][IsCreateTimer =>
             IF timer_count >= MAX_TIMERS
             THEN /\ last'.err
                  /\ UNCHANGED <<timer_list, timer_next_id, stash>>
             ELSE /\ ~last'.err
                  /\ last'.id = timer_next_id
                  /\ timer_next_id' = timer_next_id + 1
                  /\ Len(timer_list') = timer_count + 1
                  /\ TimersOf(timer_list) \subseteq TimersOf(timer_list')
                  /\ IdsOf(timer_list') = IdsOf(timer_list) \cup {last'.id}
                  /\ stash' = stash \cup {last'.id}]_vars

\* createTimer has failed on a full list: no id was used up, and the stash
\* holds the callbacks of the pending timers only
C11_Witness ==
    /\ last.op = "createTimer"
    /\ last.err
    /\ timer_count = MAX_TIMERS
    /\ timer_next_id = MAX_TIMERS + 1
    /\ Cardinality(stash) = MAX_TIMERS

\* positions of the poll list that hold a watched descriptor: not a
\* tombstone, and with something to wait for
Watched(list) == {k \in 1..Len(list) : list[k].fd # 0 /\ list[k].events # 0}

\* C12 as stated: poll() is called only with a timer pending or a descriptor
\* watched; a loop started with no timer and no descriptor stops at once,
\* without a callback and without a wait; and the loop is left only after an
\* exit request or with no timer pending and no descriptor watched.
C12_Original ==
    /\ [](pc = "poll" => (timer_count > 0 \/ Watched(poll_list) # {}))
    /\ [][(last.op = "run" /\ timer_count = 0 /\ poll_count = 0)
             => pc' = "stopped"]_vars
    /\ [](LoopOver =>
             (exit_requested
              \/ (timer_count = 0 /\ Watched(poll_list) = {})))

\* timer_expiring holds no timer
HolderEmpty == timer_expiring.id = 0

\* C13 as stated: while a timer callback runs, the holder has that timer and
\* the timer is not pending; at every other point the holder is empty; and
\* the id in the holder is never the id of a pending timer.
C13_Original ==
    /\ pc = "timer_cb" => ~HolderEmpty
    /\ pc # "timer_cb" => HolderEmpty
    /\ ~HolderEmpty => timer_expiring.id \notin IdsOf(timer_list)

\* C13 amended: the timer taken for expiry is in the holder from the call
\* of its callback to the return, and is not pending meanwhile; the holder
\* is emptied when expire_timers is through, not between two callbacks, so
\* that before the loop, during poll(), during the dispatch of readiness
\* callbacks and after the loop has stopped it holds no timer; when the
\* loop was aborted on a full timer list, the holder keeps the timer that
\* could not be queued back.
C13_HolderWhileCallback ==
    /\ [](pc = "timer_cb" =>
             (~HolderEmpty /\ timer_expiring.id \notin IdsOf(timer_list)))
    /\ [](pc \in {"idle", "poll", "dispatch", "fd_cb", "stopped", "faulted"}
             => HolderEmpty)
    /\ [](pc = "aborted" =>
             (~HolderEmpty /\ timer_expiring.id \notin IdsOf(timer_list)))
    /\ [][(pc = "expire" /\ pc' = "timer_cb") =>
             timer_expiring'.id = timer_list[timer_count].id]_vars
    /\ [][pc = "timer_cb" => timer_expiring'.id = timer_expiring.id]_vars

\* the second callback of an expiry cycle runs, and the timer that was in
\* the holder before is pending again
C13_Witness ==
    /\ pc = "timer_cb"
    /\ sanity < MAX_EXPIRYS - 1
    /\ \E k \in 1..timer_count :
          /\ fired[timer_list[k].id] > 0
          /\ timer_list[k].id # timer_expiring.id

\* a step that is a call of deleteTimer
IsDeleteTimer == calls' = calls + 1 /\ last'.op = "deleteTimer"

\* C14: deleteTimer with the id of a pending timer reports found; the list
\* afterwards is the list before with that one entry taken out, the others
\* unchanged and in their order; the stash entry of the id is gone and the
\* holder is untouched; and the callback of a timer deleted while pending is
\* not run after that, whether or not the timer was due and wherever the
\* call came from.
C14_DeletePending ==
    /\ [][(IsDeleteTimer /\ last'.id \in IdsOf(timer_list)) =>
             LET k == CHOOSE j \in 1..timer_count :
                         timer_list[j].id = last'.id
             IN  /\ last'.found
                 /\ Len(timer_list') = timer_count - 1
                 /\ \A j \in 1..(timer_count - 1) :
                       timer_list'[j] = IF j < k THEN timer_list[j]
                                        ELSE timer_list[j + 1]
                 /\ stash' = stash \ {last'.id}
                 /\ timer_expiring' = timer_expiring]_vars
    /\ [](\A id \in 1..MaxId :
             cancelled[id] # -1 =>
                /\ fired[id] = cancelled[id]
                /\ id \notin IdsOf(timer_list)
                /\ id \notin stash
                /\ ~Executing(id))

\* a one-shot timer that was due has been deleted from the callback of
\* another timer, with a third timer left pending, and the expiry cycle has
\* gone on after that
C14_Witness ==
    /\ last.op = "timer_done"
    /\ timer_count >= 1
    /\ \E id \in due :
          /\ cancelled[id] = 0
          /\ id # last.id

\* the ids of the timers that exist: the pending ones and the one whose
\* callback is running
LiveIds == IdsOf(timer_list) \cup
           (IF pc = "timer_cb" THEN {timer_expiring.id} ELSE {})

\* C15 as stated: in every state the ids that have a callback in the stash
\* are the ids of the pending timers and of the timer whose callback is
\* running, and a timer taken for expiry has its callback in the stash.
C15_Original ==
    /\ stash = LiveIds
    /\ last.op = "timer_cb" => last.id \in stash

\* no dispatch pass is under way
PassOver == pc \notin {"dispatch", "fd_cb"}

\* C16 as stated: the dispatch loop calls back an entry only if it is live
\* and has revents, with (fd, revents) of that entry, and skips an entry
\* only if it is a tombstone or has no revents; the mask of an entry is
\* clear after its callback; the callbacks of a pass come in ascending
\* position, none for an entry appended or tombstoned earlier in the pass;
\* and when the pass is over every entry that had revents and was not
\* tombstoned before its turn has had exactly one callback.
C16_Original ==
    /\ [][(pc = "dispatch" /\ pc' = "fd_cb") =>
             /\ poll_list[i + 1].fd # 0
             /\ poll_list[i + 1].revents # 0
             /\ last'.pos = i + 1
             /\ last'.fd = poll_list[i + 1].fd
             /\ last'.revents = poll_list[i + 1].revents]_vars
    /\ [][(pc = "dispatch" /\ pc' = "dispatch") =>
             (poll_list[i + 1].fd = 0 \/ poll_list[i + 1].revents = 0)]_vars
    /\ [](last.op = "fd_done" => poll_list[last.pos].revents = 0)
    /\ [](\A a, b \in 1..Len(pass.delivered) :
             a < b => pass.delivered[a].pos < pass.delivered[b].pos)
    /\ [](\A k \in 1..Len(pass.delivered) :
             /\ pass.delivered[k].pos \in 1..Len(pass.snapshot)
             /\ pass.delivered[k].pos \notin pass.killed
             /\ pass.delivered[k].fd = pass.snapshot[pass.delivered[k].pos].fd
             /\ pass.delivered[k].revents =
                   pass.snapshot[pass.delivered[k].pos].revents)
    /\ [](PassOver => \A p \in Owed : Cardinality(DeliveredAt(p)) = 1)

\* positions of a poll list that are not tombstones
Live(list) == {k \in 1..Len(list) : list[k].fd # 0}

\* the j-th live position of a poll list
JthLive(list, j) ==
    CHOOSE p \in Live(list) : Cardinality({q \in Live(list) : q < p}) = j - 1

\* a step in which eventloop_run calls compact_poll_list
IsCompaction == pc = "expire" /\ pc' \in {"poll", "stopped"} /\ ~exit_requested

\* C17: compact_poll_list leaves the live entries of the poll list, each
\* with its fd, events and revents, in their order, and poll_count is their
\* number; poll() is never given a tombstone; and in any other step every
\* entry stays at its position (it may be tombstoned there) and the list
\* only grows at its end.
C17_Compaction ==
    /\ [][IsCompaction =>
             /\ Len(poll_list') = Cardinality(Live(poll_list))
             /\ \A j \in 1..Len(poll_list') :
                   poll_list'[j] = poll_list[JthLive(poll_list, j)]]_vars
    /\ [](pc = "poll" => Live(poll_list) = 1..poll_count)
    /\ [][~IsCompaction =>
             /\ Len(poll_list') >= poll_count
             /\ \A k \in 1..poll_count :
                   poll_list'[k].fd \in {poll_list[k].fd, 0}]_vars

\* compaction has dropped the tombstone of the first entry of the last
\* dispatch pass, and the entry that was second is now first
C17_Witness ==
    /\ pc = "poll"
    /\ Len(pass.snapshot) = 2
    /\ poll_count = 1
    /\ poll_list[1].fd = pass.snapshot[2].fd
    /\ poll_list[1].events = pass.snapshot[2].events

\* no entry of a poll list has revents
NothingPending(list) == \A k \in 1..Len(list) : list[k].revents = 0

\* C18: each time the loop enters poll() no entry has revents left; so
\* when poll() returns an error or times out no entry has revents, the
\* dispatch loop that follows calls no readiness callback, and the loop
\* goes on with the next round of expire_timers.
C18_PollErrorIsQuiet ==
    /\ [](pc = "poll" => NothingPending(poll_list))
    /\ [][(pc = "poll" /\ last'.rc <= 0) => NothingPending(poll_list')]_vars
    /\ []((pc \in {"dispatch", "fd_cb"} /\ NothingPending(pass.snapshot))
             => pass.delivered = <<>>)
    /\ [][(pc = "dispatch" /\ NothingPending(pass.snapshot)) =>
             pc' \in {"dispatch", "expire"}]_vars

\* poll() has returned an error with a descriptor watched, the dispatch
\* loop has gone over the whole list without a callback, and the next round
\* has begun
C18_Witness ==
    /\ pc = "expire"
    /\ last.op = "dispatched"
    /\ n = poll_count
    /\ n >= 1
    /\ Watched(poll_list) # {}
    /\ NothingPending(pass.snapshot)
    /\ pass.delivered = <<>>

\* C19: one call of expire_timers runs at most MAX_EXPIRYS callbacks and
\* none of them twice; taking a timer for expiry removes the last entry of
\* the list only, the end of the call leaves the list as it is, and the
\* timers left, due or not, are in order.
C19_ExpiryCap ==
    /\ [](Len(cycle) <= MAX_EXPIRYS)
    /\ [](\A a, b \in 1..Len(cycle) : a # b => cycle[a] # cycle[b])
    /\ [][(pc = "expire" /\ pc' = "timer_cb") =>
             timer_list' = SubSeq(timer_list, 1, timer_count - 1)]_vars
    /\ [][(pc = "expire" /\ pc' \notin {"expire", "timer_cb"}) =>
             timer_list' = timer_list]_vars
    /\ [](pc \in {"expire", "poll", "stopped"} =>
             \A a, b \in 1..timer_count :
                a < b => timer_list[a].target >= timer_list[b].target)

\* the limit has ended an expire_timers call: MAX_EXPIRYS callbacks have
\* run and a timer that is due and has not run in this call is still pending
C19_Witness ==
    /\ pc = "expire"
    /\ sanity = 0
    /\ ~exit_requested
    /\ Len(cycle) = MAX_EXPIRYS
    /\ timer_count >= 1
    /\ timer_list[timer_count].target <= now
    /\ \A a \in 1..Len(cycle) : cycle[a] # timer_list[timer_count].id

\* x brought into lo..hi
Clamp(x, lo, hi) == IF x < lo THEN lo ELSE IF x > hi THEN hi ELSE x

\* target of the nearest timer minus the clock, in clock units
NearestDiff == timer_list[timer_count].target - clock

\* C20 as stated: the timeout given to poll() is a whole number of
\* milliseconds in MIN_WAIT..MAX_WAIT; with a timer pending it is the
\* difference of the nearest target and the clock, clamped to that range;
\* with no timer and a descriptor on the poll list it is MAX_WAIT.
C20_Original ==
    pc = "poll" =>
       /\ timeout \in MIN_WAIT..MAX_WAIT
       /\ timer_count > 0 =>
             timeout * Resolution =
                Clamp(NearestDiff, MIN_WAIT * Resolution,
                      MAX_WAIT * Resolution)
       /\ timer_count = 0 => (timeout = MAX_WAIT /\ poll_count > 0)

\* C20 amended: the timeout given to poll() is a whole number of
\* milliseconds in MIN_WAIT..MAX_WAIT; with a timer pending it is the whole
\* milliseconds of the clamped difference, the part of a millisecond cut
\* off, so MIN_WAIT for a nearest timer that is overdue or less than two
\* MIN_WAIT away and MAX_WAIT for one that is MAX_WAIT or more away; with no
\* timer and a descriptor on the poll list it is MAX_WAIT.
C20_TimeoutTruncated ==
    pc = "poll" =>
       /\ timeout \in MIN_WAIT..MAX_WAIT
       /\ timer_count > 0 =>
             LET c == Clamp(NearestDiff, MIN_WAIT * Resolution,
                            MAX_WAIT * Resolution)
             IN  /\ timeout * Resolution <= c
                 /\ c < (timeout + 1) * Resolution
                 /\ NearestDiff <= 0 => timeout = MIN_WAIT
                 /\ NearestDiff >= MAX_WAIT * Resolution
                       => timeout = MAX_WAIT
       /\ timer_count = 0 => (timeout = MAX_WAIT /\ poll_count > 0)

\* the nearest of two timers is between one and two milliseconds away, not
\* at a whole millisecond, and poll() is given 1
C20_Witness ==
    /\ pc = "poll"
    /\ timer_count = 2
    /\ NearestDiff > MIN_WAIT * Resolution
    /\ NearestDiff < MAX_WAIT * Resolution
    /\ NearestDiff % Resolution # 0
    /\ timeout * Resolution < NearestDiff
    /\ timer_list[1].target > timer_list[2].target

\* timer id is pending with a target the clock of the model gets to
Waiting(id) ==
    \E k \in 1..timer_count :
       timer_list[k].id = id /\ timer_list[k].target <= MaxTime

\* the callback of timer id is being run, or the timer was deleted
Served(id) == Executing(id) \/ cancelled[id] # -1

\* every callback so far has returned without an error
CallbacksReturn == last.op \in {"timer_done", "fd_done"} => last.ok

\* C21 as stated: with exit never requested and callbacks that return, the
\* loop is not left while a timer is pending; and if moreover the clock goes
\* on to the last instant of the model, every timer pending with a target
\* up to that instant gets its callback run unless it is deleted.
C21_Original ==
    /\ []((pc \in {"stopped", "aborted"} /\ ~exit_called /\ CallbacksReturn)
             => timer_count = 0)
    /\ \A id \in 1..MaxId :
          ([]~exit_called /\ []CallbacksReturn /\ <>(clock = MaxTime))
             => [](Waiting(id) => <>Served(id))

====
